---- MODULE Spec2Model ----
(***************************************************************************)
(* A model of the `wet` template engine: the tree builder of               *)
(* src/src/htmlparser.js and the directive interpreter of                  *)
(* src/src/engine.js.                                                      *)
(*                                                                         *)
(* JavaScript runs every stretch of code between two awaits to completion, *)
(* so one action of the model is one such stretch: the synchronous part of *)
(* Engine.render (which descends through the whole forest and leaves one   *)
(* promise per parseElement call), the resumption of a t-for loop after an *)
(* await, and the settlement of a promise in the Promise.all that waits    *)
(* for it.  Promises settle in any order.                                  *)
(*                                                                         *)
(* Text is a sequence of tokens: a literal piece, an expression span       *)
(*  {{ path }} , a literal escape, an attribute name, a span that          *)
(* preProcess masks (with the text inside it), or a placeholder.  A        *)
(* template is the sequence of the entities getNextEntity cuts it into,    *)
(* each with its source text.                                              *)
(***************************************************************************)
EXTENDS Integers, Sequences, FiniteSets, TLC

(***************************************************************************)
(* Bounds of the model.                                                    *)
(***************************************************************************)
\* how many different session identifiers the clock and Math.random can give
MaxEntities == 3
NumTreeIds == 2
\* length of the array `list` of the context
ListLen == 3
\* how many times a scenario's template is rendered in the process
MaxRenders == 2

(***************************************************************************)
(* htmlparser.js: NODE_TYPES                                               *)
(***************************************************************************)
ELEMENT_NODE == 1
TEXT_NODE == 3
CDATA_SECTION_NODE == 4
PROCESSING_INSTRUCTION_NODE == 7
COMMENT_NODE == 8
DOCUMENT_TYPE_NODE == 10

\* JavaScript's undefined, where a node, a task or an identifier is expected
Undefined == 0

(***************************************************************************)
(* Text                                                                    *)
(***************************************************************************)
Lit(s) == [k |-> "lit", p |-> <<s>>]
Exp(path) == [k |-> "exp", p |-> path]
\* the literal escape {!{ path }!}
Escaped(path) == [k |-> "escaped", p |-> path]

\* a placeholder of preProcess, named as getPlaceholder names it
Ph(id) == [k |-> "ph", p |-> <<id>>]
\* a span of the template one of the replacements of preProcess masks, with the
\* text it is made of: an escaped character (phase 1), a style or script
\* element (2), a link or meta tag (3), an expression with masked text in it (4)
Span(phase, body) == [k |-> "span", p |-> body, phase |-> phase, q |-> ""]
\* ="value" or ='value' (phase 5): the words of the value
Quoted(q, words) == [k |-> "span", p |-> words, phase |-> 5, q |-> q]
\* the name of an attribute, or a token of the attribute text without a value
Name(s) == [k |-> "name", p |-> <<s>>]
\* =value without quotes
Unquoted(s) == [k |-> "unquoted", p |-> <<s>>]

RECURSIVE PathText(_, _)
\* a.b.c
PathText(path, i) ==
  IF i > Len(path) THEN ""
  ELSE (IF i = 1 THEN path[i] ELSE "." \o path[i]) \o PathText(path, i + 1)

RECURSIVE TextFrom(_, _, _)
\* the string a token stands for
TokText(tok, between) ==
  CASE tok.k = "lit" -> tok.p[1]
    [] tok.k = "exp" -> "{{" \o PathText(tok.p, 1) \o "}}"
    [] tok.k = "escaped" -> "{!{" \o PathText(tok.p, 1) \o "}!}"
    [] tok.k = "ph" -> tok.p[1]
    [] tok.k = "name" -> " " \o tok.p[1]
    [] tok.k = "unquoted" -> "=" \o tok.p[1]
    [] tok.k = "span" /\ tok.phase = 5 -> "=" \o tok.q \o TextFrom(tok.p, 1, " ") \o tok.q
    [] OTHER -> TextFrom(tok.p, 1, "")
TextFrom(toks, i, between) ==
  IF i > Len(toks) THEN ""
  ELSE (IF i = 1 THEN "" ELSE between) \o TokText(toks[i], between)
         \o TextFrom(toks, i + 1, between)
\* the string a sequence of tokens stands for
TextOf(toks) == TextFrom(toks, 1, "")

RECURSIVE FlattenFrom(_, _)
FlattenFrom(ss, i) == IF i > Len(ss) THEN <<>> ELSE ss[i] \o FlattenFrom(ss, i + 1)
\* Array.prototype.join(''): the pieces one after the other
Flatten(ss) == FlattenFrom(ss, 1)

(***************************************************************************)
(* Values of the context                                                   *)
(***************************************************************************)
NoFields == [x \in {} |-> Undefined]
VUndef == [t |-> "undef", b |-> FALSE, n |-> 0, s |-> <<>>, l |-> <<>>, o |-> NoFields]
VBool(b) == [VUndef EXCEPT !.t = "bool", !.b = b]
VNum(n) == [VUndef EXCEPT !.t = "num", !.n = n]
VStr(toks) == [VUndef EXCEPT !.t = "str", !.s = toks]
VList(l) == [VUndef EXCEPT !.t = "list", !.l = l]
VObj(o) == [VUndef EXCEPT !.t = "obj", !.o = o]

\* JavaScript truthiness
Truthy(v) ==
  CASE v.t = "bool" -> v.b
    [] v.t = "num" -> v.n # 0
    [] v.t = "str" -> v.s # <<>>
    [] v.t = "undef" -> FALSE
    [] OTHER -> TRUE

\* {...a, ...b}: the keys of both, b's value where both have the key
Spread(a, b) ==
  [key \in DOMAIN a \cup DOMAIN b |-> IF key \in DOMAIN b THEN b[key] ELSE a[key]]

(***************************************************************************)
(* Errors                                                                  *)
(***************************************************************************)
NoError == [name |-> "", message |-> "", level |-> 0, at |-> <<>>]
JsError(name, message) == [NoError EXCEPT !.name = name, !.message = message]
TypeError(message) == JsError("TypeError", message)

Ok(v) == [ok |-> TRUE, v |-> v, e |-> NoError]
Throw(e) == [ok |-> FALSE, v |-> <<>>, e |-> e]
ThrowV(e) == [ok |-> FALSE, v |-> VUndef, e |-> e]
OkV(v) == [ok |-> TRUE, v |-> v, e |-> NoError]

(***************************************************************************)
(* The expression evaluator (./coderunner)                                 *)
(***************************************************************************)
RECURSIVE Walk(_, _, _)
Walk(v, path, i) ==
  IF i > Len(path) THEN OkV(v)
  ELSE IF v.t = "undef"
    THEN ThrowV(TypeError("Cannot read properties of undefined"))
  ELSE IF v.t = "obj" /\ path[i] \in DOMAIN v.o THEN Walk(v.o[path[i]], path, i + 1)
  ELSE Walk(VUndef, path, i + 1)

\* runner.getExpressionValue(context, exp): the deep value at a property path
getExpressionValue(context, exp) ==
  IF exp = <<>> \/ exp[1] \notin DOMAIN context
    THEN ThrowV(JsError("ReferenceError", "is not defined"))
    ELSE Walk(context[exp[1]], exp, 2)

\* runner.runForOf(context, varName, dataName): the elements of an array
runForOf(context, varName, dataName) ==
  LET r == getExpressionValue(context, <<dataName>>)
  IN  IF ~r.ok THEN [ok |-> FALSE, l |-> <<>>, e |-> r.e]
      ELSE IF r.v.t # "list"
        THEN [ok |-> FALSE, l |-> <<>>, e |-> TypeError("is not iterable")]
      ELSE [ok |-> TRUE, l |-> r.v.l, e |-> NoError]

RECURSIVE SetToSeq(_)
\* the keys of an object, one after the other
SetToSeq(s) == IF s = {} THEN <<>> ELSE LET m == CHOOSE a \in s : TRUE IN <<m>> \o SetToSeq(s \ {m})

\* runner.runForIn(context, varName, dataName): the {key, value} pairs of a mapping
runForIn(context, varName, dataName) ==
  LET r == getExpressionValue(context, <<dataName>>)
      keys == SetToSeq(DOMAIN r.v.o)
  IN  IF ~r.ok THEN [ok |-> FALSE, l |-> <<>>, e |-> r.e]
      ELSE IF r.v.t # "obj"
        THEN [ok |-> FALSE, l |-> <<>>, e |-> TypeError("is not iterable")]
      ELSE [ok |-> TRUE, e |-> NoError,
            l |-> [i \in DOMAIN keys |->
                     VObj([key |-> VStr(<<Lit(keys[i])>>), value |-> r.v.o[keys[i]]])]]

\* runner.runCode(`return ${expression}`, context)
runCode(expression, context) == getExpressionValue(context, expression)

(***************************************************************************)
(* engine.js: resolveExpression                                            *)
(***************************************************************************)
EscapeStr(s) == CASE s = "<" -> "&lt;" [] s = ">" -> "&gt;" [] OTHER -> s
EscapeTok(tok) ==
  IF tok.k = "lit" THEN [tok EXCEPT !.p = [i \in DOMAIN tok.p |-> EscapeStr(tok.p[i])]]
  ELSE tok

RECURSIVE JoinFrom(_, _)
JoinFrom(ss, i) ==
  IF i > Len(ss) THEN <<>>
  ELSE IF i = Len(ss) THEN ss[i]
  ELSE ss[i] \o <<Lit(",")>> \o JoinFrom(ss, i + 1)
\* Array.prototype.toString: the elements with commas between
JoinComma(ss) == JoinFrom(ss, 1)

RECURSIVE StringOf(_)
\* String(value), after JSON.stringify of a plain object
StringOf(v) ==
  CASE v.t = "bool" -> <<Lit(IF v.b THEN "true" ELSE "false")>>
    [] v.t = "num" -> <<Lit(ToString(v.n))>>
    [] v.t = "str" -> v.s
    [] v.t = "list" -> JoinComma([i \in DOMAIN v.l |-> StringOf(v.l[i])])
    [] v.t = "obj" -> <<Lit("{json}")>>
    [] OTHER -> <<Lit("undefined")>>

\* String(value).replace(/</g, '&lt;').replace(/>/g, '&gt;')
Escape(s) == [i \in DOMAIN s |-> EscapeTok(s[i])]

\* what the callback of replace returns for the value the evaluator gave
SpanText(r, context) ==
  IF ~r.ok THEN Throw(r.e)
  ELSE IF "__useRawHTML" \in DOMAIN context /\ Truthy(context["__useRawHTML"])
    THEN Ok(StringOf(r.v))
  ELSE Ok(Escape(StringOf(r.v)))

\* the replacement of one {{ exp }} span
ResolveSpan(tok, context) == SpanText(getExpressionValue(context, tok.p), context)

\* a piece of the content as it is, a span replaced
ResolveTok(tok, context) == IF tok.k = "exp" THEN ResolveSpan(tok, context) ELSE Ok(<<tok>>)

\* the text of a piece followed by the text of the rest; the first throw ends it
Then(first, rest) ==
  IF ~first.ok THEN first ELSE IF ~rest.ok THEN rest ELSE Ok(first.v \o rest.v)

RECURSIVE resolveFrom(_, _, _)
resolveFrom(content, i, context) ==
  IF i > Len(content) THEN Ok(<<>>)
  ELSE Then(ResolveTok(content[i], context), resolveFrom(content, i + 1, context))

\* String.replace goes through the content once: what it puts in is not scanned
resolveExpression(content, context) == resolveFrom(content, 1, context)

\* engine.js: renderTemplateTag
renderTemplateTag(tag, children) ==
  <<Lit("<!-- " \o tag \o " BEGIN -->"), Lit("\n")>> \o children
    \o <<Lit("\n"), Lit("<!-- " \o tag \o " END -->")>>

FALSE_MARKER == <<Lit("<!-- FALSE -->")>>

(***************************************************************************)
(* htmlparser.js: Entity, Node and the tree builder                        *)
(***************************************************************************)
NoAttrs == [x \in {} |-> <<>>]
Entity(type, state, tag, attrs, data) ==
  [type |-> type, state |-> state, tag |-> tag, attrs |-> attrs, data |-> data]

\* name="word word" for the attributes one after the other
AttrTokens(attrs, keys) ==
  Flatten([i \in DOMAIN keys |->
             <<Name(keys[i]),
               Quoted("\"", [j \in DOMAIN attrs[keys[i]] |-> Lit(attrs[keys[i]][j])])>>])
\* an open tag with its attributes, each with a value in double quotes
Open(tag, attrs) ==
  Entity(ELEMENT_NODE, "open", tag, attrs,
         <<Lit("<" \o tag)>> \o AttrTokens(attrs, SetToSeq(DOMAIN attrs)) \o <<Lit(">")>>)
\* an open tag with the given attribute text
OpenTag(tag, attrText) ==
  Entity(ELEMENT_NODE, "open", tag, NoAttrs, <<Lit("<" \o tag)>> \o attrText \o <<Lit(">")>>)
Close(tag) == Entity(ELEMENT_NODE, "close", "/" \o tag, NoAttrs, <<Lit("</" \o tag \o ">")>>)
Text(data) == Entity(TEXT_NODE, "", "", NoAttrs, data)
Comment(s) == Entity(COMMENT_NODE, "", "", NoAttrs, <<Lit("<!--" \o s \o "-->")>>)
\* <?target ... ?>
Instruction(s) == Entity(PROCESSING_INSTRUCTION_NODE, "", "", NoAttrs, <<Lit("<?" \o s \o "?>")>>)

(***************************************************************************)
(* htmlparser.js: PLACEHOLDERS, preProcess and decode.  T is the table and *)
(* placeholderIndex.                                                       *)
(***************************************************************************)
NoPlaceholders == [next |-> 0, map |-> [x \in {} |-> <<>>]]
\* htmlparser.js: getPlaceholder, before placeholderIndex is stored
getPlaceholder(T) == "_@#!" \o ToString(T.next + 1) \o "!#@_"
\* PLACEHOLDERS[p] = input, with p the next placeholder
Stored(T, input) == [next |-> T.next + 1, map |-> (getPlaceholder(T) :> input) @@ T.map]

\* the replacement of preProcess that masks the token
PhaseOf(tok) == CASE tok.k = "span" -> tok.phase [] tok.k = "exp" -> 4 [] OTHER -> 0
\* what a replacement stores: the text matched; of a quoted value, the value
Input(tok) == IF tok.k = "span" /\ tok.phase = 5 THEN tok.p ELSE <<tok>>
\* what a replacement puts in the content
Replacement(tok, T) ==
  IF tok.k = "span" /\ tok.phase = 5 THEN <<Lit("="), Ph(getPlaceholder(T))>>
  ELSE <<Ph(getPlaceholder(T))>>

RECURSIVE maskFrom(_, _, _, _, _)
\* the text inside a span that a later replacement masks has been gone through
maskInside(text, i, phase, acc, r) ==
  maskFrom(text, i + 1, phase, r.T, Append(acc, [text[i] EXCEPT !.p = r.text]))
\* one replacement of preProcess over a text, from its i-th token on
maskFrom(text, i, phase, T, acc) ==
  IF i > Len(text) THEN [text |-> acc, T |-> T]
  ELSE IF PhaseOf(text[i]) = phase
    THEN maskFrom(text, i + 1, phase, Stored(T, Input(text[i])),
                  acc \o Replacement(text[i], T))
  ELSE IF PhaseOf(text[i]) > phase /\ text[i].k = "span"
    THEN maskInside(text, i, phase, acc, maskFrom(text[i].p, 1, phase, T, <<>>))
  ELSE maskFrom(text, i + 1, phase, T, Append(acc, text[i]))

RECURSIVE maskEntities(_, _, _, _, _)
maskEntity(content, i, phase, acc, r) ==
  maskEntities(content, i + 1, phase, r.T, Append(acc, [content[i] EXCEPT !.data = r.text]))
\* one replacement of preProcess over the content, entity by entity
maskEntities(content, i, phase, T, acc) ==
  IF i > Len(content) THEN [content |-> acc, T |-> T]
  ELSE maskEntity(content, i, phase, acc, maskFrom(content[i].data, 1, phase, T, <<>>))

RECURSIVE preProcessFrom(_, _, _)
nextReplace(phase, r) == preProcessFrom(r.content, phase + 1, r.T)
preProcessFrom(content, phase, T) ==
  IF phase > 5 THEN [content |-> content, T |-> T]
  ELSE nextReplace(phase, maskEntities(content, 1, phase, T, <<>>))
\* htmlparser.js: preProcess: the five replacements, one after the other
preProcess(content, T) == preProcessFrom(content, 1, T)

\* PLACEHOLDERS[placeholder]; String.replace puts "undefined" for undefined
ValueOfPlaceholder(T, id) == IF id \in DOMAIN T.map THEN T.map[id] ELSE <<Lit("undefined")>>
\* delete PLACEHOLDERS[placeholder], if remove
Removed(T, id, remove) ==
  IF remove THEN [T EXCEPT !.map = [x \in DOMAIN T.map \ {id} |-> T.map[x]]] ELSE T

RECURSIVE decodeFrom(_, _, _, _, _)
decodeInside(text, i, remove, acc, r) ==
  decodeFrom(text, i + 1, r.T, remove, Append(acc, [text[i] EXCEPT !.p = r.text]))
\* every placeholder in the text replaced by its value; the value is not scanned
decodeFrom(text, i, T, remove, acc) ==
  IF i > Len(text) THEN [text |-> acc, T |-> T]
  ELSE IF text[i].k = "ph"
    THEN decodeFrom(text, i + 1, Removed(T, text[i].p[1], remove), remove,
                    acc \o ValueOfPlaceholder(T, text[i].p[1]))
  ELSE IF text[i].k = "span"
    THEN decodeInside(text, i, remove, acc, decodeFrom(text[i].p, 1, T, remove, <<>>))
  ELSE decodeFrom(text, i + 1, T, remove, Append(acc, text[i]))
\* htmlparser.js: decode
decode(text, T, remove) == decodeFrom(text, 1, T, remove, <<>>)

RECURSIVE attrsFrom(_, _, _, _)
\* Node._resolve: the loop over the matches of attrReg in the attribute text;
\* ok is false where decode is given undefined, the value of a token without a
\* quoted value
attrsFrom(data, i, T, values) ==
  IF i > Len(data) THEN [ok |-> TRUE, values |-> values]
  ELSE IF data[i].k # "name" THEN attrsFrom(data, i + 1, T, values)
  ELSE IF /\ i + 2 <= Len(data)
          /\ data[i + 1].k = "lit" /\ data[i + 1].p[1] = "="
          /\ data[i + 2].k = "ph" /\ data[i + 2].p[1] \in DOMAIN T.map
    THEN attrsFrom(data, i + 3, T,
                   (data[i].p[1] :> decode(T.map[data[i + 2].p[1]], T, FALSE).text) @@ values)
  ELSE [ok |-> FALSE, values |-> values]

\* Node._resolve
resolve(entity, T) ==
  IF entity.type = ELEMENT_NODE THEN attrsFrom(entity.data, 1, T, NoAttrs)
  ELSE [ok |-> TRUE, values |-> NoAttrs]

\* the strings the directives read from the attributes
WordsOf(values) ==
  [name \in DOMAIN values |-> [j \in DOMAIN values[name] |-> TokText(values[name][j], "")]]

\* the node with its attributes and its raw text; __condition__ is the property
\* renderCondition adds
Constructed(entity, resolved, raw) ==
  [ok |-> resolved.ok, T |-> raw.T,
   node |-> [type |-> entity.type, tag |-> entity.tag, attrs |-> WordsOf(resolved.values),
             values |-> resolved.values, raw |-> raw.text,
             children |-> <<>>, parent |-> Undefined, index |-> 0, closed |-> FALSE,
             cond |-> "none"]]

\* new Node(entity): _resolve, then this._raw = decode(decode(this._raw), true)
Node(entity, T) ==
  Constructed(entity, resolve(entity, T), decode(decode(entity.data, T, FALSE).text, T, TRUE))

\* new Node(): the root the builder starts from
RootNode ==
  [type |-> Undefined, tag |-> "", attrs |-> NoAttrs, values |-> NoAttrs, raw |-> <<>>,
   children |-> <<>>, parent |-> Undefined, index |-> 0, closed |-> FALSE,
   cond |-> "none"]
Root == 1

isElement(nodes, n) == nodes[n].type = ELEMENT_NODE

\* Node.appendChild: `node` becomes the last child of `p`
appendChild(nodes, p, node) ==
  LET id == Len(nodes) + 1
      child == [node EXCEPT !.parent = p, !.index = Len(nodes[p].children)]
  IN  Append([nodes EXCEPT ![p].children = Append(@, id)], child)

\* Node.next: parent._children[index + 1]
next(nodes, n) ==
  LET sibs == nodes[nodes[n].parent].children
      i == nodes[n].index + 2
  IN  IF i <= Len(sibs) THEN sibs[i] ELSE Undefined

\* Node.nextElement; ok is false where the getter throws (next is undefined)
nextElement(nodes, n) ==
  LET nx == next(nodes, n)
  IN  IF nx = Undefined THEN [ok |-> FALSE, n |-> Undefined]
      ELSE IF isElement(nodes, nx) THEN [ok |-> TRUE, n |-> nx]
      ELSE [ok |-> TRUE, n |-> next(nodes, nx)]

\* one turn of the loop of parse, from the node made of the entity on
place(st, entity, node) ==
  IF st.cur = Undefined THEN [st EXCEPT !.ok = FALSE]
  ELSE IF entity.type # ELEMENT_NODE
    THEN [st EXCEPT !.nodes = appendChild(st.nodes, st.cur, node)]
  ELSE IF st.nodes[st.cur].closed
    THEN IF st.nodes[st.cur].parent = Undefined THEN [st EXCEPT !.ok = FALSE]
         ELSE [st EXCEPT !.stack = Append(@, st.cur),
                         !.nodes = appendChild(st.nodes, st.nodes[st.cur].parent, node),
                         !.cur = Len(st.nodes) + 1]
  ELSE IF entity.state = "open"
    THEN [st EXCEPT !.stack = Append(@, st.cur),
                    !.nodes = appendChild(st.nodes, st.cur, node),
                    !.cur = Len(st.nodes) + 1]
  ELSE [st EXCEPT !.nodes = [@ EXCEPT ![st.cur].closed = TRUE],
                  !.cur = IF st.stack = <<>> THEN Undefined ELSE st.stack[Len(st.stack)],
                  !.stack = IF st.stack = <<>> THEN <<>> ELSE SubSeq(@, 1, Len(@) - 1)]

\* the constructor has thrown, or the node is put in its place
made(st, entity, constructed) ==
  IF ~constructed.ok THEN [st EXCEPT !.ok = FALSE, !.T = constructed.T]
  ELSE place([st EXCEPT !.T = constructed.T], entity, constructed.node)

\* one turn of the loop of parse
parseStep(st, entity) == made(st, entity, Node(entity, st.T))

RECURSIVE parseLoop(_, _, _)
parseLoop(content, i, st) ==
  IF i > Len(content) \/ ~st.ok THEN st
  ELSE parseLoop(content, i + 1, parseStep(st, content[i]))

\* parse from the content preProcess has masked
parseMasked(masked) ==
  parseLoop(masked.content, 1,
            [nodes |-> <<RootNode>>, stack |-> <<Root>>, cur |-> Root, ok |-> TRUE,
             T |-> masked.T])

\* htmlparser.parse: the node table of the forest (the forest is the children of
\* Root) and the placeholder table afterwards
parse(content) == parseMasked(preProcess(content, NoPlaceholders))

(***************************************************************************)
(* Promises.  A task is the promise of one call: of render, of             *)
(* parseElement (with what it awaits folded in), of parseChildren, of      *)
(* renderTreeChildren.  kind "all" waits for a Promise.all over n kids (or *)
(* for the one promise of an included render), kind "include" for the     *)
(* file of a t-include to be read,                                         *)
(* kind "for" is the loop of renderFor waiting for its current iteration,  *)
(* a "leaf" was settled by the call itself.  frames are what the callers   *)
(* do with the outcome, innermost first.  A Promise.all takes up the kids  *)
(* that were settled when it was made at once, in their order, and the     *)
(* others in the order they settle; it settles in a stretch of its own.    *)
(* threw is the error the awaited code rejected with, before the callers   *)
(* of the frames made something of it; node is a node of the forest dom.   *)
(***************************************************************************)
EmptyCtx == [x \in {} |-> VUndef]
Frame(op, node, ctx) == [op |-> op, node |-> node, ctx |-> ctx]

NoTask ==
  [kind |-> "leaf", fn |-> "", node |-> Undefined, parent |-> Undefined, slot |-> 0,
   ctx |-> EmptyCtx, st |-> "pending", v |-> <<>>, e |-> NoError,
   n |-> 0, vals |-> <<>>, order |-> <<>>, failed |-> FALSE, joined |-> <<>>,
   frames |-> <<>>,
   items |-> <<>>, pos |-> 0, acc |-> <<>>, tid |-> Undefined,
   delivered |-> FALSE, note |-> "", threw |-> NoError, dom |-> Undefined]

Base(fn, node, parent, slot, ctx, frames) ==
  [NoTask EXCEPT !.fn = fn, !.node = node, !.parent = parent, !.slot = slot,
                 !.ctx = ctx, !.frames = frames]

\* engine.js: raiseTemplateError; a Node has no property `line`
raiseTemplateError(options, node, e) ==
  IF "line" \notin DOMAIN node
    THEN TypeError("Cannot read properties of undefined (reading 'toString')")
  ELSE IF e.name = "ParseError"
    THEN [name |-> "ParseError", message |-> e.message, level |-> e.level + 1,
          at |-> Append(e.at, node.raw)]
  ELSE [name |-> "ParseError", message |-> e.message, level |-> 0, at |-> <<node.raw>>]

\* String.prototype.toUpperCase on the tags of the directives
toUpperCase(tag) ==
  CASE tag = "t-if" -> "T-IF" [] tag = "t-else" -> "T-ELSE" [] tag = "t-elif" -> "T-ELIF"
    [] tag = "t-for" -> "T-FOR" [] tag = "t-with" -> "T-WITH" [] tag = "t-tree" -> "T-TREE"
    [] tag = "t-html" -> "T-HTML" [] tag = "t-include" -> "T-INCLUDE" [] OTHER -> tag

RECURSIVE Words(_, _)
\* the words of an attribute value with the blanks between them
Words(ws, i) ==
  IF i > Len(ws) THEN <<>>
  ELSE (IF i = 1 THEN <<ws[i]>> ELSE <<Lit(" "), ws[i]>>) \o Words(ws, i + 1)

\* ` ${key}="${value}"` for the keys one after the other
AttrsOf(node, keys) ==
  Flatten([i \in DOMAIN keys |->
             <<Lit(" " \o keys[i] \o "=\"")>> \o Words(node.values[keys[i]], 1) \o <<Lit("\"")>>])

\* htmlparser.js: Node.attrsString
attrsString(node) == AttrsOf(node, SetToSeq(DOMAIN node.attrs))

\* the last two replacements of Engine.render
UnescapeTok(tok) ==
  IF tok.k = "escaped" THEN Exp(tok.p)
  ELSE IF tok.k = "lit" /\ tok.p[1] = "{!{" THEN Lit("{{")
  ELSE IF tok.k = "lit" /\ tok.p[1] = "}!}" THEN Lit("}}")
  ELSE tok

\* `<${tag}${parsedAttrs}>${childrenElements.join('')}</${tag}>`
ElementText(tag, parsedAttrs, out) ==
  IF ~parsedAttrs.ok THEN parsedAttrs
  ELSE Ok(<<Lit("<" \o tag)>> \o parsedAttrs.v \o <<Lit(">")>> \o out.v
          \o <<Lit("</" \o tag \o ">")>>)

\* what one caller does with the outcome of the promise it awaits
ApplyFrame(f, out, nodes, options) ==
  IF ~out.ok
    THEN IF f.op = "catch" THEN Throw(raiseTemplateError(options, nodes[f.node], out.e))
         ELSE out
  ELSE CASE f.op = "resolve" -> resolveExpression(out.v, f.ctx)
         [] f.op = "wrap" -> Ok(renderTemplateTag(toUpperCase(nodes[f.node].tag), out.v))
         [] f.op = "elem" ->
              ElementText(nodes[f.node].tag,
                          resolveExpression(attrsString(nodes[f.node]), f.ctx), out)
         [] f.op = "unescape" -> Ok([i \in DOMAIN out.v |-> UnescapeTok(out.v[i])])
         [] OTHER -> out

RECURSIVE ApplyFrames(_, _, _, _, _)
ApplyFrames(frames, i, out, nodes, options) ==
  IF i > Len(frames) THEN out
  ELSE ApplyFrames(frames, i + 1, ApplyFrame(frames[i], out, nodes, options), nodes, options)

\* the promise with the outcome r its callers made of `out`
SettleWith(task, out, r) ==
  [task EXCEPT !.st = IF r.ok THEN "val" ELSE "err", !.v = r.v, !.e = r.e,
               !.joined = IF out.ok THEN out.v ELSE <<>>,
               !.threw = IF out.ok THEN NoError ELSE out.e]

\* the promise settles with what its frames make of `out`
Settle(task, out, nodes, options) ==
  SettleWith(task, out, ApplyFrames(task.frames, 1, out, nodes, options))

\* a faulty Promise.all: the values in the order the promises settled
CollectByCompletion(vals, order, slot, v) == [vals EXCEPT ![Len(order) + 1] = v]

\* the value Promise.all keeps for the promise at `slot`
CollectResult(vals, order, slot, v) == [vals EXCEPT ![slot] = v]

\* Promise.all takes up the settled promise i: its value at its place, or its
\* error if it is the first
Collect(T, i) ==
  LET kid == T[i]
      all == T[kid.parent]
  IN  [T EXCEPT ![i].delivered = TRUE,
                ![kid.parent] =
                   IF kid.st = "err"
                     THEN IF all.failed THEN all ELSE [all EXCEPT !.failed = TRUE, !.e = kid.e]
                     ELSE [all EXCEPT !.vals = CollectResult(all.vals, all.order, kid.slot, kid.v),
                                      !.order = Append(@, kid.slot)]]

Leaf(S, options, base, out) ==
  [S EXCEPT !.tasks = Append(@, Settle([base EXCEPT !.dom = S.d], out, S.nodes, options))]

(***************************************************************************)
(* engine.js: the interpreter.  S is what a synchronous stretch works on:  *)
(* the nodes of the forest (d its place in doms), TREE_CACHE (tc), the     *)
(* tasks, and the session ids the clock and Math.random give in this       *)
(* stretch (ids, k used).                                                  *)
(***************************************************************************)
TreeIdOf(context) ==
  IF "__tree_id__" \in DOMAIN context THEN context["__tree_id__"].n ELSE Undefined

\* TREE_CACHE[treeId] = {children, varName}
TreeCacheSet(tc, treeId, entry) ==
  [i \in DOMAIN tc \cup {treeId} |-> IF i = treeId THEN entry ELSE tc[i]]
\* a faulty renderTree: the entry is left in TREE_CACHE
TreeCacheKeep(tc, treeId) == tc
\* delete TREE_CACHE[treeId]
TreeCacheDelete(tc, treeId) == [i \in DOMAIN tc \ {treeId} |-> tc[i]]

\* the scope of one item of a tree: {__tree_id__: treeId, ...context, [varName]: item}
TreeItemContext(treeId, context, varName, item) ==
  Spread(Spread("__tree_id__" :> VNum(treeId), context), varName :> item)

\* the scope of one iteration of t-for: {...context, [varName]: item}
ItemContext(context, varName, item) == Spread(context, varName :> item)

\* What a render method has done when it returns or reaches its first await:
\* S after its assignments, and what it returns (kind "leaf": out) or awaits:
\* the children under ctx ("children", "elem"; "for": the first iteration of
\* the loop over items), the items of data under the session treeId ("tree",
\* "expand").
Plan(S, kind, out, note) ==
  [S |-> S, kind |-> kind, out |-> out, note |-> note, children |-> <<>>, ctx |-> EmptyCtx,
   items |-> <<>>, data |-> VUndef, treeId |-> Undefined]
Returns(S, out, note) == Plan(S, "leaf", out, note)
AwaitsChildren(S, children, context) ==
  [Plan(S, "children", Ok(<<>>), "children") EXCEPT !.children = children, !.ctx = context]

\* the iteration source of <t-for on="varName operator dataName">
loopContextOf(context, on) ==
  IF Len(on) >= 3 /\ on[2] = "of" THEN runForOf(context, on[1], on[3])
  ELSE IF Len(on) >= 3 /\ on[2] = "in" THEN runForIn(context, on[1], on[3])
  ELSE [ok |-> FALSE, l |-> <<>>, e |-> TypeError("loopContext is not iterable")]

\* Engine.renderFor from the loop on, up to its first await
forLoop(S, node, context, loopContext) ==
  IF ~loopContext.ok THEN Returns(S, Throw(loopContext.e), "")
  ELSE IF loopContext.l = <<>> THEN Returns(S, Ok(<<>>), "")
  ELSE [Plan(S, "for", Ok(<<>>), "") EXCEPT
          !.children = node.children, !.items = loopContext.l,
          !.ctx = ItemContext(context, node.attrs["on"][1], loopContext.l[1])]

\* Engine.renderFor up to its first await
renderFor(S, n, context) ==
  IF "on" \notin DOMAIN S.nodes[n].attrs
    THEN Returns(S, Throw(JsError("Error", "Missing attribute on for t-for")), "")
    ELSE forLoop(S, S.nodes[n], context, loopContextOf(context, S.nodes[n].attrs["on"]))

\* nextNode.__condition__ = !result, where nextNode is a t-else or a t-elif
setCondition(S, nextNode, result) ==
  IF nextNode # Undefined /\ S.nodes[nextNode].tag \in {"t-else", "t-elif"}
    THEN [S EXCEPT !.nodes[nextNode].cond = IF Truthy(result) THEN "false" ELSE "true"]
    ELSE S

\* Engine.renderCondition from the value of the expression on
condition(S, node, context, result, nextNode) ==
  IF ~result.ok THEN Returns(S, Throw(result.e), "")
  ELSE IF ~nextNode.ok
    THEN Returns(S, Throw(TypeError("Cannot read properties of undefined (reading 'isElement')")), "")
  ELSE IF ~Truthy(result.v)
    THEN Returns(setCondition(S, nextNode.n, result.v), Ok(FALSE_MARKER), "false")
  ELSE AwaitsChildren(setCondition(S, nextNode.n, result.v), node.children, context)

\* Engine.renderCondition
renderCondition(S, n, context) ==
  condition(S, S.nodes[n], context, getExpressionValue(context, S.nodes[n].attrs["on"]),
            nextElement(S.nodes, n))

\* Engine.renderIf
renderIf(S, n, context) ==
  IF "on" \notin DOMAIN S.nodes[n].attrs
    THEN Returns(S, Throw(JsError("Error", "Missing attribute on for t-if")), "")
    ELSE renderCondition(S, n, context)

\* Engine.renderElif
renderElif(S, n, context) ==
  IF "on" \notin DOMAIN S.nodes[n].attrs
    THEN Returns(S, Throw(JsError("Error", "Missing attribute on for t-elif")), "")
  ELSE IF S.nodes[n].cond = "none"
    THEN Returns(S, Throw(JsError("Error", "t-elif must after t-if or t-elif")), "sequencing")
  ELSE renderCondition(S, n, context)

\* Engine.renderElse
renderElse(S, n, context) ==
  IF S.nodes[n].cond = "none"
    THEN Returns(S, Throw(JsError("Error", "t-else must after t-if or t-elif")), "sequencing")
  ELSE IF S.nodes[n].cond = "false" THEN Returns(S, Ok(FALSE_MARKER), "false")
  ELSE AwaitsChildren(S, S.nodes[n].children, context)

\* Engine.renderTree from treeData on, up to the call of renderTreeChildren
treeSession(S, node, treeData, treeId) ==
  IF treeData.t # "list"
    THEN Returns(S, Throw(JsError("Error", "Data must be an Array for t-tree")), "")
    ELSE [Plan([S EXCEPT !.k = @ + 1,
                         !.tc = TreeCacheSet(@, treeId, [children |-> node.children,
                                                         varName |-> node.attrs["on"][3]])],
               "tree", Ok(<<>>), "") EXCEPT !.data = treeData, !.treeId = treeId]

\* context[name], undefined where the context has no such key
ValueOf(context, name) == IF name \in DOMAIN context THEN context[name] ELSE VUndef

\* Engine.renderTree up to the call of renderTreeChildren
renderTree(S, n, context) ==
  IF "on" \notin DOMAIN S.nodes[n].attrs
    THEN Returns(S, Throw(JsError("Error", "Missing attribute on for t-tree")), "")
    ELSE treeSession(S, S.nodes[n], ValueOf(context, S.nodes[n].attrs["on"][1]),
                     S.ids[(S.k % Len(S.ids)) + 1])

\* Engine.renderChildren from data on
childrenOf(S, treeId, data) ==
  IF ~Truthy(data) THEN Returns(S, Ok(<<>>), "leafitem")
  ELSE [Plan(S, "expand", Ok(<<>>), "expand") EXCEPT !.data = data, !.treeId = treeId]

\* Engine.renderChildren from context[varName][field] on
fieldOf(S, treeId, item, field) ==
  IF item.t = "undef"
    THEN Returns(S, Throw(TypeError("Cannot read properties of undefined")), "")
    ELSE childrenOf(S, treeId,
                    IF item.t = "obj" /\ field \in DOMAIN item.o THEN item.o[field] ELSE VUndef)

\* Engine.renderChildren
renderChildren(S, n, context) ==
  IF TreeIdOf(context) \notin DOMAIN S.tc
    THEN Returns(S, Throw(TypeError("Cannot destructure property 'varName' of undefined")), "miss")
    ELSE fieldOf(S, TreeIdOf(context), ValueOf(context, S.tc[TreeIdOf(context)].varName),
                 IF "field" \in DOMAIN S.nodes[n].attrs THEN S.nodes[n].attrs["field"][1]
                 ELSE "children")

\* a faulty renderWith: {...alias, ...context}, the keys of the context win
withAliasShadowed(S, node, context, alias) ==
  AwaitsChildren(S, node.children,
                 Spread([varName \in DOMAIN alias |-> alias[varName].v], context))

\* Engine.renderWith from the values of the aliases on
withAlias(S, node, context, alias) ==
  IF \E varName \in DOMAIN alias : ~alias[varName].ok
    THEN Returns(S, Throw(alias[CHOOSE varName \in DOMAIN alias : ~alias[varName].ok].e), "")
    ELSE AwaitsChildren(S, node.children,
                        Spread(context, [varName \in DOMAIN alias |-> alias[varName].v]))

\* Engine.renderWith
renderWith(S, n, context) ==
  IF DOMAIN S.nodes[n].attrs = {}
    THEN Returns(S, Throw(JsError("Error", "Must specify at least one attribute for t-with")), "")
    ELSE withAlias(S, S.nodes[n], context,
                   [varName \in DOMAIN S.nodes[n].attrs |->
                      runCode(S.nodes[n].attrs[varName], context)])

\* Engine.renderInclude up to its await: path.join throws without attribute file
renderInclude(S, n, context) ==
  IF "file" \notin DOMAIN S.nodes[n].attrs
    THEN Returns(S, Throw(TypeError("The path argument must be of type string")), "")
    ELSE Plan(S, "include", Ok(<<>>), "include")

\* Engine.renderHTML
renderHTML(S, n, context) ==
  AwaitsChildren(S, S.nodes[n].children, Spread(context, "__useRawHTML" :> VBool(TRUE)))

\* Engine.parseElement: the branch taken for the node, up to its first await
branchOf(S, node, n, context) ==
  CASE node.type = DOCUMENT_TYPE_NODE -> Returns(S, Ok(node.raw), "")
    [] node.type \in {TEXT_NODE, COMMENT_NODE, CDATA_SECTION_NODE} ->
         Returns(S, resolveExpression(node.raw, context), "")
    [] node.type = ELEMENT_NODE /\ node.tag = "t-for" -> renderFor(S, n, context)
    [] node.type = ELEMENT_NODE /\ node.tag = "t-if" -> renderIf(S, n, context)
    [] node.type = ELEMENT_NODE /\ node.tag = "t-elif" -> renderElif(S, n, context)
    [] node.type = ELEMENT_NODE /\ node.tag = "t-else" -> renderElse(S, n, context)
    [] node.type = ELEMENT_NODE /\ node.tag = "t-with" -> renderWith(S, n, context)
    [] node.type = ELEMENT_NODE /\ node.tag = "t-include" -> renderInclude(S, n, context)
    [] node.type = ELEMENT_NODE /\ node.tag = "t-html" -> renderHTML(S, n, context)
    [] node.type = ELEMENT_NODE /\ node.tag = "t-tree" -> renderTree(S, n, context)
    [] node.type = ELEMENT_NODE /\ node.tag = "t-children" -> renderChildren(S, n, context)
    [] OTHER -> [Plan(S, "elem", Ok(<<>>), "") EXCEPT !.children = node.children, !.ctx = context]

\* what parseElement does with the outcome of the branch: nothing for a
\* doctype, which returns before the try; the promise of renderTreeChildren is
\* returned by renderChildren without await, past the catch
framesOf(node, n, kind, context) ==
  IF node.type = DOCUMENT_TYPE_NODE \/ kind = "expand" THEN <<>>
  ELSE IF kind = "elem" THEN <<Frame("elem", n, context), Frame("catch", n, EmptyCtx)>>
  ELSE IF node.type = ELEMENT_NODE /\ node.tag # "t-children"
    THEN <<Frame("wrap", n, EmptyCtx), Frame("catch", n, EmptyCtx)>>
  ELSE <<Frame("catch", n, EmptyCtx)>>

\* the promise of the parseElement call that took the branch `plan`
callOf(node, n, context, parent, slot, plan) ==
  [Base("parseElement", n, parent, slot, context, framesOf(node, n, plan.kind, context))
     EXCEPT !.note = plan.note,
            !.tid = IF plan.kind = "tree" THEN plan.treeId ELSE Undefined]

\* renderFor before its first iteration: the promise of the loop is the call's
loopOf(plan, call) ==
  IF plan.kind = "for"
    THEN [plan.S EXCEPT !.tasks = Append(@, [call EXCEPT !.kind = "for", !.items = plan.items,
                                                        !.dom = plan.S.d,
                                                        !.pos = 1])]
    ELSE plan.S
\* the promise of parseChildren: awaited by the loop, or the call's own
bodyOf(plan, call, n, context) ==
  IF plan.kind = "for"
    THEN Base("parseChildren", n, Len(plan.S.tasks) + 1, 1, context, <<>>)
    ELSE call

\* renderTree after renderTreeChildren has returned its promise
afterTree(S, plan) ==
  IF plan.kind = "tree" THEN [S EXCEPT !.tc = TreeCacheDelete(@, plan.treeId)] ELSE S

RECURSIVE allTask(_, _, _, _, _)
RECURSIVE kidsFold(_, _, _, _, _, _)
RECURSIVE parseChildren(_, _, _, _, _)
RECURSIVE renderTreeChildren(_, _, _, _, _, _)
RECURSIVE itemsFold(_, _, _, _, _, _, _, _)
RECURSIVE parseElement(_, _, _, _, _, _)

\* Promise.all(kids.map(kid => this.parseElement(kid, context)))
allTask(S, options, kids, context, base) ==
  kidsFold([S EXCEPT !.tasks = Append(@, [base EXCEPT !.kind = "all", !.n = Len(kids),
                                                       !.dom = S.d,
                                                       !.vals = [i \in 1..Len(kids) |-> <<>>]])],
           options, kids, 1, context, Len(S.tasks) + 1)

\* Promise.all takes up at once a promise that is settled when it is made
takeUp(S, kid) ==
  IF S.tasks[kid].st = "pending" THEN S ELSE [S EXCEPT !.tasks = Collect(@, kid)]

kidsFold(S, options, kids, i, context, t) ==
  IF i > Len(kids) THEN S
  ELSE kidsFold(takeUp(parseElement(S, options, kids[i], context, t, i), Len(S.tasks) + 1),
                options, kids, i + 1, context, t)

\* Engine.parseChildren: the children, joined, and resolveExpression on the whole
parseChildren(S, options, children, context, base) ==
  allTask(S, options, children, context,
          [base EXCEPT !.frames = <<Frame("resolve", Undefined, context)>> \o @,
                       !.ctx = context, !.note = "children"])

\* Engine.renderTreeChildren
renderTreeChildren(S, options, data, treeId, context, base) ==
  IF treeId \notin DOMAIN S.tc \/ data.t # "list"
    THEN Leaf(S, options,
              [base EXCEPT !.note = IF treeId \notin DOMAIN S.tc THEN "miss" ELSE @],
              Throw(TypeError(IF treeId \notin DOMAIN S.tc
                                THEN "Cannot destructure property 'children' of undefined"
                                ELSE "data.map is not a function")))
    ELSE itemsFold([S EXCEPT !.tasks = Append(@, [base EXCEPT !.kind = "all", !.n = Len(data.l),
                                                   !.dom = S.d,
                                                   !.vals = [i \in 1..Len(data.l) |-> <<>>]])],
                   options, S.tc[treeId], data.l, 1, treeId, context, Len(S.tasks) + 1)

itemsFold(S, options, entry, items, j, treeId, context, t) ==
  IF j > Len(items) THEN S
  ELSE itemsFold(
         parseChildren(S, options, entry.children,
                       TreeItemContext(treeId, context, entry.varName, items[j]),
                       Base("parseChildren", Undefined, t, j, context, <<>>)),
         options, entry, items, j + 1, treeId, context, t)

\* Engine.parseElement from the branch on, up to its first await
proceed(options, n, context, plan, call) ==
  CASE plan.kind = "leaf" -> Leaf(plan.S, options, call, plan.out)
    [] plan.kind = "elem" -> allTask(plan.S, options, plan.children, plan.ctx, call)
    [] plan.kind \in {"children", "for"} ->
         parseChildren(loopOf(plan, call), options, plan.children, plan.ctx,
                       bodyOf(plan, call, n, context))
    [] plan.kind = "include" ->
         [plan.S EXCEPT !.tasks = Append(@, [call EXCEPT !.kind = "include", !.dom = plan.S.d])]
    [] OTHER ->
         afterTree(renderTreeChildren(plan.S, options, plan.data, plan.treeId, context, call),
                   plan)

\* Engine.parseElement of node n, from its branch
parseNode(S, options, node, n, context, parent, slot, plan) ==
  proceed(options, n, context, plan, callOf(node, n, context, parent, slot, plan))

\* Engine.parseElement up to its first await
parseElement(S, options, n, context, parent, slot) ==
  parseNode(S, options, S.nodes[n], n, context, parent, slot,
            branchOf(S, S.nodes[n], n, context))

(***************************************************************************)
(* The templates and contexts of the model                                 *)
(***************************************************************************)
list == VList([i \in 1..ListLen |-> VNum(i)])
\* [{data: 1, children: [{data: 2}]}, {data: 3}]
treeData ==
  VList(<<VObj([data |-> VNum(1), children |-> VList(<<VObj([data |-> VNum(2)])>>)]),
          VObj([data |-> VNum(3)])>>)
\* [{data: 4}]
leaf == VList(<<VObj([data |-> VNum(4)])>>)
\* [{data: 5, children: [{data: 6}]}]
chain == VList(<<VObj([data |-> VNum(5), children |-> VList(<<VObj([data |-> VNum(6)])>>)])>>)
\* {b: {c: 7}}
deep == VObj([b |-> VObj([c |-> VNum(7)])])
Context(visible) ==
  [visible |-> VBool(visible), list |-> list, treeData |-> treeData, leaf |-> leaf, chain |-> chain,
   a |-> deep, zero |-> VNum(0), payload |-> VStr(<<Exp(<<"visible">>)>>)]

White == Text(<<Lit(" ")>>)
Str(s) == Text(<<Lit(s)>>)
Elem(tag, attrs, body) == <<Open(tag, attrs)>> \o body \o <<Close(tag)>>

\* <t-if on="visible">A</t-if> ... <t-else>B</t-else>
IfElse(between) ==
  Elem("t-if", [on |-> <<"visible">>], <<Str("A")>>) \o between
    \o Elem("t-else", NoAttrs, <<Str("B")>>)
\* <ul><t-for on="item of list"><li>{{item}}</li><b>x</b></t-for></ul>
ForList ==
  Elem("ul", NoAttrs,
       Elem("t-for", [on |-> <<"item", "of", "list">>],
            Elem("li", NoAttrs, <<Text(<<Exp(<<"item">>)>>)>>) \o Elem("b", NoAttrs, <<Str("x")>>)))

\* <t-tree on="treeData as item"><div>{{item.data}}<t-children></t-children></div></t-tree>
TreeOf(data, varName, body) == Elem("t-tree", [on |-> <<data, "as", varName>>], body)
Tree(body) == TreeOf("treeData", "item", body)
ItemData == Text(<<Exp(<<"item", "data">>)>>)
Children == Elem("t-children", NoAttrs, <<>>)
TreeDiv == Tree(Elem("div", NoAttrs, <<ItemData>> \o Children))
\* the placeholder inside a t-for of the body
TreeFor == Tree(Elem("t-for", [on |-> <<"x", "of", "list">>], <<ItemData>> \o Children))
\* a body that fails: {{missing}} is not in the context
TreeFails == Tree(<<ItemData, Text(<<Exp(<<"missing">>)>>)>>)
\* two trees side by side
TwoTrees == TreeOf("chain", "item", <<ItemData>> \o Children)
              \o TreeOf("leaf", "item", <<ItemData>> \o Children)
\* a tree in the body of a tree
NestedTrees ==
  TreeOf("chain", "item",
         TreeOf("leaf", "sub", <<Text(<<Exp(<<"sub", "data">>)>>)>>) \o <<ItemData>> \o Children)
\* <t-elif on="visible">A</t-elif> with nothing before it
LoneElif == <<Str("x")>> \o Elem("t-elif", [on |-> <<"visible">>], <<Str("A")>>) \o <<Str("y")>>
\* <p>{{visible}}<t-with list="a.b.c" visible="list" xx="visible">{{xx}}|{{visible}}|{{list}}</t-with>{{visible}}</p>
With ==
  Elem("p", NoAttrs,
       <<Text(<<Exp(<<"visible">>)>>)>>
         \o Elem("t-with", [list |-> <<"a", "b", "c">>, visible |-> <<"list">>, xx |-> <<"visible">>],
                 <<Text(<<Exp(<<"xx">>), Lit("|"), Exp(<<"visible">>), Lit("|"), Exp(<<"list">>)>>)>>)
         \o <<Text(<<Exp(<<"visible">>)>>)>>)
\* {!{visible}!}<p>{!{visible}!}</p><t-if on="visible">{!{visible}!}</t-if> and a blank
Literal == Text(<<Escaped(<<"visible">>)>>)
Escapes ==
  <<Literal>> \o Elem("p", NoAttrs, <<Literal>>)
    \o Elem("t-if", [on |-> <<"visible">>], <<Literal>>) \o <<White>>
\* the files a t-include can name: footer.html is {!{visible}!}
Files == <<[name |-> "footer.html", content |-> <<Literal>>]>>
Include(file) == Elem("t-include", [file |-> <<file>>], <<>>)
\* <t-include file="footer.html"></t-include> at the top, in a <p> and in a t-if
IncludeTop == Include("footer.html") \o Elem("p", NoAttrs, Include("footer.html"))
IncludeInIf == Elem("t-if", [on |-> <<"visible">>], Include("footer.html")) \o <<White>>
\* a file that does not exist
IncludeMissing == Include("none.html")
\* templates without a directive tag: <div class="x">hi {{visible}}</div>,
\* <p>a<br>b</p>, <?php echo 1; ?>x and <a href='x'>t</a>
Plain == Elem("div", [class |-> <<"x">>], <<Text(<<Lit("hi "), Exp(<<"visible">>)>>)>>)
Break == <<Open("p", NoAttrs), Str("a"), Open("br", NoAttrs), Str("b"), Close("p")>>
Prolog == <<Instruction("php echo 1; "), Str("x")>>
SingleQuoted ==
  <<OpenTag("a", <<Name("href"), Quoted("'", <<Lit("x")>>)>>), Str("t"), Close("a")>>
\* <t-if on="visible">A</t-if><t-elif on="...">B</t-elif><t-else>C</t-else>
ElifChain(on) ==
  Elem("t-if", [on |-> <<"visible">>], <<Str("A")>>)
    \o Elem("t-elif", [on |-> <<on>>], <<Str("B")>>)
    \o Elem("t-else", NoAttrs, <<Str("C")>>)
\* {{payload}}<p>{{payload}}</p>, where payload is the string "{{visible}}"
Payload == Text(<<Exp(<<"payload">>)>>)
InjectedPlain == <<Payload>> \o Elem("p", NoAttrs, <<Payload>>)
\* <t-if on="list">{{payload}}</t-if> and a blank; list is truthy
InjectedIf == Elem("t-if", [on |-> <<"list">>], <<Payload>>) \o <<White>>
\* <t-if on="list"><t-with x="list">{{payload}}</t-with></t-if> and a blank,
\* with payload "{{visible}}"
InjectedDeep ==
  Elem("t-if", [on |-> <<"list">>], Elem("t-with", [x |-> <<"list">>], <<Payload>>))
    \o <<White>>
\* <t-tree on="chain as item"><t-tree on="leaf as sub">{{sub.data}}<t-children></t-children></t-tree></t-tree>
NestedChildren ==
  TreeOf("chain", "item",
         TreeOf("leaf", "sub", <<Text(<<Exp(<<"sub", "data">>)>>)>> \o Children))

Scenario(content, cache, renders, ctxs, trees) ==
  [content |-> content, cache |-> cache, renders |-> renders, ctxs |-> ctxs, trees |-> trees]

Both == <<Context(TRUE), Context(FALSE)>>
Scenarios ==
  << Scenario(IfElse(<<White>>), TRUE, MaxRenders, Both, 0),
     Scenario(IfElse(<<>>), FALSE, 1, Both, 0),
     Scenario(IfElse(<<White, Comment("c")>>), FALSE, 1, Both, 0),
     Scenario(ForList, FALSE, 1, <<Context(TRUE)>>, 0),
     Scenario(TreeDiv, FALSE, 1, <<Context(TRUE)>>, 1),
     Scenario(TreeFor, FALSE, 1, <<Context(TRUE)>>, 1),
     Scenario(TreeFails, FALSE, 1, <<Context(TRUE)>>, 1),
     Scenario(TwoTrees, FALSE, 1, <<Context(TRUE)>>, 2),
     Scenario(NestedTrees, FALSE, 1, <<Context(TRUE)>>, 3),
     Scenario(LoneElif, FALSE, 1, Both, 0),
     Scenario(With, FALSE, 1, Both, 0),
     Scenario(Escapes, FALSE, 1, Both, 0),
     Scenario(IncludeTop, TRUE, 1, Both, 0),
     Scenario(IncludeInIf, FALSE, 1, Both, 0),
     Scenario(IncludeMissing, FALSE, 1, Both, 0),
     Scenario(Plain, FALSE, 1, Both, 0),
     Scenario(Break, FALSE, 1, <<Context(TRUE)>>, 0),
     Scenario(Prolog, FALSE, 1, <<Context(TRUE)>>, 0),
     Scenario(SingleQuoted, FALSE, 1, <<Context(TRUE)>>, 0),
     Scenario(ElifChain("zero"), FALSE, 1, Both, 0),
     Scenario(ElifChain("list"), FALSE, 1, Both, 0),
     Scenario(InjectedPlain, FALSE, 1, Both, 0),
     Scenario(InjectedIf, FALSE, 1, Both, 0),
     Scenario(InjectedDeep, FALSE, 1, Both, 0),
     Scenario(NestedChildren, FALSE, 1, <<Context(TRUE)>>, 3) >>

(***************************************************************************)
(* The process: the renders of one template, the cache of parsed forests   *)
(***************************************************************************)
VARIABLES
  scn,         \* the scenario: the template, options and contexts in use
  DOM_CACHE,   \* engine.js DOM_CACHE: content hash -> the forest stored (its place in doms)
  doms,        \* the forests htmlParser.parse has returned, each a table of nodes
  parses,      \* how many times htmlParser.parse was called
  state,       \* of each render: "new", "running", "done" (returned), "failed" (threw)
  context,     \* of each render: the context it was given
  dom,         \* of each render: the forest parseDOM gave it
  TREE_CACHE,  \* of each Engine: this.TREE_CACHE
  tasks,       \* of each render: its promises
  html,        \* of each render: what render returned
  error,       \* of each render: what render threw
  input,       \* the content htmlparser.parse is given
  output,      \* what parse returned: the nodes and the placeholder table, or that it threw
  sibling      \* the node nextElement was read on, and what the getter gave

engine == <<scn, DOM_CACHE, doms, parses, state, context, dom, TREE_CACHE, tasks, html, error>>
vars == <<engine, input, output, sibling>>

Renders == 1..MaxRenders

\* before parse is called, and before nextElement is read
NotParsed == [done |-> FALSE, ok |-> TRUE, nodes |-> <<>>, T |-> NoPlaceholders]
NotAsked == [node |-> Undefined, ok |-> TRUE, n |-> Undefined]
NoEntries == [x \in {} |-> Undefined]

Init ==
  /\ scn \in 1..Len(Scenarios)
  /\ DOM_CACHE = NoEntries
  /\ doms = <<>>
  /\ parses = 0
  /\ state = [r \in Renders |-> "new"]
  /\ context = [r \in Renders |-> EmptyCtx]
  /\ dom = [r \in Renders |-> Undefined]
  /\ TREE_CACHE = [r \in Renders |-> NoEntries]
  /\ tasks = [r \in Renders |-> <<>>]
  /\ html = [r \in Renders |-> <<>>]
  /\ error = [r \in Renders |-> NoError]
  /\ input = <<>>
  /\ output = NotParsed
  /\ sibling = NotAsked

Options(s) == [cache |-> Scenarios[s].cache, filename |-> "demo.html"]

\* a faulty parseDOM: the content is parsed again and the stored forest replaced
parseDOMAgain(content, cache, md5, cached, forests) ==
  LET parsed == parse(content)
      d == Len(forests) + 1
  IN  [d |-> d, ok |-> parsed.ok, parsed |-> TRUE, forests |-> Append(forests, parsed.nodes),
       cached |-> IF cache /\ parsed.ok
                    THEN [k \in DOMAIN cached \cup {md5} |-> IF k = md5 THEN d ELSE cached[k]]
                    ELSE cached]

\* Engine.parseDOM: the forest for `content`, from DOM_CACHE when options.cache is set
parseDOM(content, cache, md5, cached, forests) ==
  LET parsed == parse(content)
      fresh == [d |-> Len(forests) + 1, ok |-> parsed.ok, parsed |-> TRUE,
                forests |-> Append(forests, parsed.nodes), cached |-> cached]
  IN  IF ~cache THEN fresh
      ELSE IF md5 \in DOMAIN cached
        THEN [d |-> cached[md5], ok |-> TRUE, parsed |-> FALSE,
              forests |-> forests, cached |-> cached]
      ELSE [fresh EXCEPT !.cached = IF parsed.ok THEN md5 :> fresh.d @@ cached ELSE cached]

\* a faulty renderFor: the result of an iteration put before the earlier ones
unshiftResult(result, parsedChildren) == <<parsedChildren>> \o result
\* Array.prototype.push on the results of renderFor
pushResult(result, parsedChildren) == Append(result, parsedChildren)

\* Engine.render up to its await: parseDOM, then parseElement on every node of the forest
Render(r) ==
  /\ state[r] = "new"
  /\ r <= Scenarios[scn].renders
  /\ \E c \in 1..Len(Scenarios[scn].ctxs), ids \in [1..Scenarios[scn].trees -> 1..NumTreeIds] :
       LET got == parseDOM(Scenarios[scn].content, Scenarios[scn].cache, scn, DOM_CACHE, doms)
           ctx == Scenarios[scn].ctxs[c]
           S == allTask([nodes |-> got.forests[got.d], tc |-> TREE_CACHE[r], tasks |-> <<>>,
                         ids |-> ids, k |-> 0, d |-> got.d],
                        Options(scn), got.forests[got.d][Root].children, ctx,
                        Base("render", Undefined, Undefined, 0, ctx,
                             <<Frame("unescape", Undefined, EmptyCtx)>>))
       IN  /\ context' = [context EXCEPT ![r] = ctx]
           /\ parses' = IF got.parsed THEN parses + 1 ELSE parses
           /\ DOM_CACHE' = got.cached
           /\ IF got.ok
                THEN /\ state' = [state EXCEPT ![r] = "running"]
                     /\ dom' = [dom EXCEPT ![r] = got.d]
                     /\ doms' = [got.forests EXCEPT ![got.d] = S.nodes]
                     /\ TREE_CACHE' = [TREE_CACHE EXCEPT ![r] = S.tc]
                     /\ tasks' = [tasks EXCEPT ![r] = S.tasks]
                     /\ error' = error
                ELSE /\ state' = [state EXCEPT ![r] = "failed"]
                     /\ error' = [error EXCEPT ![r] = TypeError("Cannot read properties of undefined")]
                     /\ UNCHANGED <<dom, doms, TREE_CACHE, tasks>>
  /\ UNCHANGED <<input, output, sibling, scn, html>>

\* a promise that settled after its Promise.all was made is taken up by it
Deliver(r, i) ==
  LET kid == tasks[r][i]
  IN  /\ state[r] # "new"
      /\ kid.st # "pending" /\ ~kid.delivered
      /\ kid.parent # Undefined /\ tasks[r][kid.parent].kind = "all"
      /\ tasks' = [tasks EXCEPT ![r] = Collect(@, i)]
      /\ UNCHANGED <<input, output, sibling, scn, DOM_CACHE, doms, parses, state, context, dom, TREE_CACHE, html, error>>

\* a Promise.all settles: rejected with the first error it took up, or fulfilled
\* with the join of its values once it has them all; its awaiting callers go on
Join(r, p) ==
  LET all == tasks[r][p]
  IN  /\ state[r] # "new"
      /\ all.kind = "all" /\ all.st = "pending"
      /\ all.failed \/ Len(all.order) = all.n
      /\ tasks' = [tasks EXCEPT ![r][p] =
                     Settle(all, IF all.failed THEN Throw(all.e) ELSE Ok(Flatten(all.vals)),
                            doms[all.dom], Options(scn))]
      /\ UNCHANGED <<input, output, sibling, scn, DOM_CACHE, doms, parses, state, context, dom, TREE_CACHE, html, error>>

\* Engine.renderFor after an await: push the iteration's result, go on with the next item
ForResume(r, i) ==
  LET kid == tasks[r][i]
      p == kid.parent
      loop == tasks[r][p]
      nodes == doms[loop.dom]
      node == nodes[loop.node]
      result == pushResult(loop.acc, kid.v)
      taken == [tasks[r] EXCEPT ![i].delivered = TRUE]
  IN  /\ state[r] # "new"
      /\ kid.st # "pending" /\ ~kid.delivered
      /\ p # Undefined /\ loop.kind = "for"
      /\ \E ids \in [1..Scenarios[scn].trees -> 1..NumTreeIds] :
           IF kid.st = "err"
             THEN /\ tasks' = [tasks EXCEPT ![r] =
                                 [taken EXCEPT ![p] = Settle(loop, Throw(kid.e), nodes, Options(scn))]]
                  /\ UNCHANGED <<doms, TREE_CACHE>>
           ELSE IF loop.pos = Len(loop.items)
             THEN /\ tasks' = [tasks EXCEPT ![r] =
                                 [taken EXCEPT ![p] = Settle([loop EXCEPT !.acc = result],
                                                             Ok(Flatten(result)), nodes, Options(scn))]]
                  /\ UNCHANGED <<doms, TREE_CACHE>>
           ELSE LET S == parseChildren(
                           [nodes |-> nodes, tc |-> TREE_CACHE[r],
                            tasks |-> [taken EXCEPT ![p].acc = result, ![p].pos = loop.pos + 1],
                            ids |-> ids, k |-> 0, d |-> loop.dom],
                           Options(scn), node.children,
                           ItemContext(loop.ctx, node.attrs["on"][1], loop.items[loop.pos + 1]),
                           Base("parseChildren", loop.node, p, loop.pos + 1, loop.ctx, <<>>))
                IN  /\ tasks' = [tasks EXCEPT ![r] = S.tasks]
                    /\ doms' = [doms EXCEPT ![loop.dom] = S.nodes]
                    /\ TREE_CACHE' = [TREE_CACHE EXCEPT ![r] = S.tc]
      /\ UNCHANGED <<input, output, sibling, scn, DOM_CACHE, parses, state, context, dom, html, error>>

\* the node the promise i is about
NodeOf(r, i) == doms[tasks[r][i].dom][tasks[r][i].node]

\* the place of the file among Files, or Undefined
FileIndex(name) ==
  IF \E f \in DOMAIN Files : Files[f].name = name
    THEN CHOOSE f \in DOMAIN Files : Files[f].name = name
    ELSE Undefined

\* renderInclude from now on awaits the promise of the included render
Awaiting(task) == [task EXCEPT !.kind = "all", !.n = 1, !.vals = <<<<>>>>]

\* new Engine(content, context, options).render() up to its await
engineRender(r, i, task, got, ids) ==
  allTask([nodes |-> got.forests[got.d], tc |-> NoEntries,
           tasks |-> [tasks[r] EXCEPT ![i] = Awaiting(task)], ids |-> ids, k |-> 0, d |-> got.d],
          Options(scn), got.forests[got.d][Root].children, task.ctx,
          Base("render", Undefined, i, 1, task.ctx, <<Frame("unescape", Undefined, EmptyCtx)>>))

\* the included render has started, or parse has thrown
included(r, i, task, got, S) ==
  /\ parses' = IF got.parsed THEN parses + 1 ELSE parses
  /\ DOM_CACHE' = got.cached
  /\ IF got.ok
       THEN /\ tasks' = [tasks EXCEPT ![r] = S.tasks]
            /\ doms' = [got.forests EXCEPT ![got.d] = S.nodes]
       ELSE /\ tasks' = [tasks EXCEPT ![r][i] =
                           Settle(task, Throw(TypeError("Cannot read properties of undefined")),
                                  doms[task.dom], Options(scn))]
            /\ UNCHANGED doms

\* render(file, context, options) of engine.js once readFile has settled
readThen(r, i, task, f, got, ids) ==
  IF f = Undefined
    THEN /\ tasks' = [tasks EXCEPT ![r][i] =
                        Settle(task, Throw(JsError("Error", "ENOENT: no such file or directory")),
                               doms[task.dom], Options(scn))]
         /\ UNCHANGED <<parses, DOM_CACHE, doms>>
    ELSE included(r, i, task, got, engineRender(r, i, task, got, ids))

\* Engine.renderInclude after readFile: the file is rendered by an Engine of its own
IncludeFile(r, i) ==
  /\ state[r] # "new"
  /\ tasks[r][i].kind = "include" /\ tasks[r][i].st = "pending"
  /\ \E ids \in [1..Scenarios[scn].trees -> 1..NumTreeIds] :
       readThen(r, i, tasks[r][i], FileIndex(NodeOf(r, i).attrs["file"][1]),
                parseDOM(Files[FileIndex(NodeOf(r, i).attrs["file"][1])].content,
                         Scenarios[scn].cache,
                         Len(Scenarios) + FileIndex(NodeOf(r, i).attrs["file"][1]),
                         DOM_CACHE, doms),
                ids)
  /\ UNCHANGED <<input, output, sibling, scn, state, context, dom, TREE_CACHE, html, error>>

\* Engine.render after its await: the joined html, or the error of the first rejection
Finish(r) ==
  /\ state[r] = "running"
  /\ tasks[r][1].st # "pending"
  /\ state' = [state EXCEPT ![r] = IF tasks[r][1].st = "val" THEN "done" ELSE "failed"]
  /\ html' = [html EXCEPT ![r] = tasks[r][1].v]
  /\ error' = [error EXCEPT ![r] = tasks[r][1].e]
  /\ UNCHANGED <<input, output, sibling, scn, DOM_CACHE, doms, parses, context, dom, TREE_CACHE, tasks>>

Next ==
  \/ \E r \in Renders : Render(r)
  \/ \E r \in Renders : \E i \in DOMAIN tasks[r] : Deliver(r, i)
  \/ \E r \in Renders : \E i \in DOMAIN tasks[r] : Join(r, i)
  \/ \E r \in Renders : \E i \in DOMAIN tasks[r] : ForResume(r, i)
  \/ \E r \in Renders : \E i \in DOMAIN tasks[r] : IncludeFile(r, i)
  \/ \E r \in Renders : Finish(r)

Spec == Init /\ [][Next]_vars

(***************************************************************************)
(* htmlparser.js alone: parse applied to a content, and nextElement read   *)
(* on the nodes of the forest it returns.                                  *)
(***************************************************************************)
\* the tags and the text the contents are made of
Entities ==
  <<Open("div", NoAttrs),
    Close("div"),
    Open("p", [class |-> <<"x">>]),
    Text(<<Lit("hi")>>),
    Comment("c"),
    OpenTag("input", <<Name("disabled")>>),
    OpenTag("a", <<Name("href"), Unquoted("x")>>),
    OpenTag("t-children", <<Name("field"), Quoted("\"", <<Lit("children")>>), Name("/")>>),
    OpenTag("p", <<Name("title"),
                   Quoted("'", <<Span(4, <<Lit("{{a"), Span(1, <<Lit("\\}")>>), Lit("}}")>>)>>)>>),
    Text(<<Span(4, <<Lit("{{"), Span(2, <<Lit("<script>"), Span(1, <<Lit("\\n")>>),
                                          Lit("</script>")>>), Lit("}}")>>)>>)>>

\* the contents of at most MaxEntities tags and texts
Contents ==
  UNION {[1..len -> 1..Len(Entities)] : len \in 0..MaxEntities}

ParseInit ==
  /\ scn = 1
  /\ DOM_CACHE = NoEntries
  /\ doms = <<>>
  /\ parses = 0
  /\ state = [r \in Renders |-> "new"]
  /\ context = [r \in Renders |-> EmptyCtx]
  /\ dom = [r \in Renders |-> Undefined]
  /\ TREE_CACHE = [r \in Renders |-> NoEntries]
  /\ tasks = [r \in Renders |-> <<>>]
  /\ html = [r \in Renders |-> <<>>]
  /\ error = [r \in Renders |-> NoError]
  /\ input \in {[i \in DOMAIN c |-> Entities[c[i]]] : c \in Contents}
  /\ output = NotParsed
  /\ sibling = NotAsked

\* what parse returns, or that it has thrown
Returned(parsed) == [done |-> TRUE, ok |-> parsed.ok, nodes |-> parsed.nodes, T |-> parsed.T]

\* htmlparser.parse(content)
Parse ==
  /\ ~output.done
  /\ output' = Returned(parse(input))
  /\ UNCHANGED <<engine, input, sibling>>

\* node.nextElement, read on a node of the forest
NextElement(n) ==
  /\ output.done /\ output.ok
  /\ sibling.node = Undefined
  /\ n # Root
  /\ sibling' = [node |-> n] @@ nextElement(output.nodes, n)
  /\ UNCHANGED <<engine, input, output>>

ParseNext ==
  \/ Parse
  \/ \E n \in DOMAIN output.nodes : NextElement(n)

ParseSpec == ParseInit /\ [][ParseNext]_vars

(***************************************************************************)
(* Properties                                                              *)
(***************************************************************************)
Finished(r) == state[r] \in {"done", "failed"}
Forest(r) == doms[dom[r]]

RECURSIVE ElementFrom(_, _, _)
ElementFrom(nodes, sibs, i) ==
  IF i > Len(sibs) THEN Undefined
  ELSE IF isElement(nodes, sibs[i]) THEN sibs[i]
  ELSE ElementFrom(nodes, sibs, i + 1)
\* the nearest following sibling that is an element, however many nodes lie between
NextElementSibling(nodes, n) ==
  ElementFrom(nodes, nodes[nodes[n].parent].children, nodes[n].index + 2)

\* the promises of the parseElement calls on node n
TasksOf(r, n) ==
  {i \in DOMAIN tasks[r] :
     tasks[r][i].fn = "parseElement" /\ tasks[r][i].dom = dom[r] /\ tasks[r][i].node = n}
\* the promises the Promise.all or loop p waits for at place s
KidsAt(r, p, s) ==
  {i \in DOMAIN tasks[r] : tasks[r][i].parent = p /\ tasks[r][i].slot = s}
KidAt(r, p, s) == CHOOSE i \in KidsAt(r, p, s) : TRUE

\* the pairs of a t-if with attribute on and the t-else that is its next element sibling
IfElsePairs(nodes) ==
  {pair \in (DOMAIN nodes \ {Root}) \X (DOMAIN nodes \ {Root}) :
     /\ nodes[pair[1]].type = ELEMENT_NODE /\ nodes[pair[1]].tag = "t-if"
     /\ "on" \in DOMAIN nodes[pair[1]].attrs
     /\ pair[2] = NextElementSibling(nodes, pair[1])
     /\ nodes[pair[2]].tag = "t-else"}

\* C1: of a t-if with attribute on and the t-else that is its next element
\* sibling, exactly one renders its children in a render pass: the t-if when the
\* on expression is truthy, the t-else when it is falsy; the other one emits only
\* the FALSE marker.
C1_IfElseExclusive ==
  \A r \in Renders : Finished(r) /\ dom[r] # Undefined =>
    \A pair \in IfElsePairs(Forest(r)) :
      LET on == Forest(r)[pair[1]].attrs["on"]
          truthy == Truthy(getExpressionValue(context[r], on).v)
      IN  /\ TasksOf(r, pair[1]) # {} /\ TasksOf(r, pair[2]) # {}
          /\ \A i \in TasksOf(r, pair[1]) :
               tasks[r][i].note = IF truthy THEN "children" ELSE "false"
          /\ \A j \in TasksOf(r, pair[2]) :
               tasks[r][j].note = IF truthy THEN "false" ELSE "children"

RECURSIVE ListItems(_)
\* <li>j</li><b>x</b> for j from the given one to the last of the list
ListItems(j) ==
  IF j > ListLen THEN ""
  ELSE "<li>" \o ToString(j) \o "</li><b>x</b>" \o ListItems(j + 1)

\* C2: the output of a t-for is the concatenation of the renderings of its
\* children, one per item of the iteration source, in iteration order, each
\* rendered under the context plus the loop variable bound to that item,
\* whatever the order in which the child renders complete.
C2_ForInIterationOrder ==
  \A r \in Renders :
    /\ \A p \in DOMAIN tasks[r] :
         LET loop == tasks[r][p]
             varName == NodeOf(r, p).attrs["on"][1]
         IN  loop.kind = "for" /\ loop.st = "val" =>
               /\ \A j \in 1..Len(loop.items) :
                    /\ Cardinality(KidsAt(r, p, j)) = 1
                    /\ tasks[r][KidAt(r, p, j)].st = "val"
                    /\ tasks[r][KidAt(r, p, j)].ctx = ItemContext(loop.ctx, varName, loop.items[j])
               /\ loop.joined = Flatten([j \in 1..Len(loop.items) |-> tasks[r][KidAt(r, p, j)].v])
    /\ Scenarios[scn].content = ForList /\ Finished(r) =>
         /\ state[r] = "done"
         /\ TextOf(html[r]) = "<ul><!-- T-FOR BEGIN -->\n" \o ListItems(1) \o "\n<!-- T-FOR END --></ul>"

\* a t-for over several items has returned, and in one of its iterations the
\* later child completed before the earlier one
C2_Witness ==
  \E r \in Renders : \E p, q \in DOMAIN tasks[r] :
    /\ state[r] = "done"
    /\ tasks[r][p].kind = "for" /\ tasks[r][p].st = "val" /\ Len(tasks[r][p].items) >= 2
    /\ tasks[r][q].parent = p /\ tasks[r][q].slot >= 2 /\ tasks[r][q].order = <<2, 1>>

\* the nodes a Promise.all of parseElement calls goes through, where the model keeps them
Siblings(r, p) ==
  IF tasks[r][p].fn = "render" THEN doms[tasks[r][p].dom][Root].children
  ELSE NodeOf(r, p).children

\* C3: at every level (the forest, the children of an element, the children of
\* a directive) the joined result is the concatenation of the renderings of the
\* siblings in document order, for every order in which their renders complete.
C3_JoinInDocumentOrder ==
  \A r \in Renders : \A p \in DOMAIN tasks[r] :
    LET all == tasks[r][p]
    IN  all.kind = "all" /\ all.st = "val" =>
          /\ \A s \in 1..all.n :
               /\ Cardinality(KidsAt(r, p, s)) = 1
               /\ tasks[r][KidAt(r, p, s)].st = "val"
               /\ (all.fn = "render" \/ all.node # Undefined)
                    /\ all.note \notin {"expand", "include"} /\ all.tid = Undefined
                    => tasks[r][KidAt(r, p, s)].node = Siblings(r, p)[s]
          /\ all.joined = Flatten([s \in 1..all.n |-> tasks[r][KidAt(r, p, s)].v])

\* siblings have been joined after the later one completed before the earlier one
C3_Witness ==
  \E r \in Renders : \E p \in DOMAIN tasks[r] :
    /\ tasks[r][p].kind = "all" /\ tasks[r][p].st = "val"
    /\ tasks[r][p].order = <<2, 1>>
    /\ tasks[r][KidAt(r, p, 1)].v # tasks[r][KidAt(r, p, 2)].v

RECURSIVE Times(_, _)
\* the string s, k times over
Times(s, k) == IF k = 0 THEN "" ELSE s \o Times(s, k - 1)

RECURSIVE DepthFirst(_, _, _)
\* the depth-first expansion of the items from the j-th on: the body once per
\* item, the expansion of its children where the body has t-children; the body
\* is <div>{{item.data}}<t-children></t-children></div>, or the same two inside
\* a t-for over list
DepthFirst(items, j, inFor) ==
  IF j > Len(items) THEN ""
  ELSE LET item == items[j].o
           below == IF "children" \in DOMAIN item THEN DepthFirst(item["children"].l, 1, inFor) ELSE ""
           own == ToString(item["data"].n) \o below
       IN  (IF inFor THEN "<!-- T-FOR BEGIN -->\n" \o Times(own, ListLen) \o "\n<!-- T-FOR END -->"
            ELSE "<div>" \o own \o "</div>")
           \o DepthFirst(items, j + 1, inFor)

\* C4: over a finite nested array a t-tree renders its body exactly once per
\* item at every depth, depth-first, the nested items of an item at the place
\* of the t-children of its rendering and before the next sibling item; an item
\* without the field renders its body with nothing for t-children.
C4_TreeDepthFirst ==
  \A r \in Renders :
    Finished(r) /\ Scenarios[scn].content \in {TreeDiv, TreeFor} =>
      /\ state[r] = "done"
      /\ TextOf(html[r]) = "<!-- T-TREE BEGIN -->\n"
                             \o DepthFirst(treeData.l, 1, Scenarios[scn].content = TreeFor)
                             \o "\n<!-- T-TREE END -->"

\* the expansion is the depth-first one where the body has no suspension point
C4_TreeDivDepthFirst ==
  \A r \in Renders :
    Finished(r) /\ Scenarios[scn].content = TreeDiv =>
      /\ state[r] = "done"
      /\ TextOf(html[r]) = "<!-- T-TREE BEGIN -->\n" \o DepthFirst(treeData.l, 1, FALSE)
                             \o "\n<!-- T-TREE END -->"

\* the promises of the t-tree directives of a render
TreeTasks(r) == {i \in DOMAIN tasks[r] : tasks[r][i].tid # Undefined}
\* no two t-tree directives of the render were given the same session identifier
DistinctSessions(r) ==
  \A i, j \in TreeTasks(r) : i # j => tasks[r][i].tid # tasks[r][j].tid

\* C5: the session entry of a t-tree stays in the store from the moment the
\* directive begins rendering until its rendering has completed, and every
\* lookup made for that tree by renderTreeChildren or renderChildren finds it.
C5_SessionUntilRendered ==
  \A r \in Renders : DistinctSessions(r) =>
    /\ \A i \in TreeTasks(r) :
         tasks[r][i].st = "pending" => tasks[r][i].tid \in DOMAIN TREE_CACHE[r]
    /\ \A i \in DOMAIN tasks[r] : tasks[r][i].note # "miss"

\* a t-children reached in a later iteration of a t-for of the body has looked
\* its session up and not found it
C5_Witness ==
  \E r \in Renders : \E i \in DOMAIN tasks[r] :
    /\ Scenarios[scn].content = TreeFor
    /\ tasks[r][i].note = "miss"
    /\ NodeOf(r, i).tag = "t-children"

\* C6: once a render has finished, with output or with an error raised inside
\* the body of a t-tree, the TREE_CACHE of its Engine holds no entry.
C6_NoSessionLeft ==
  \A r \in Renders : Finished(r) => DOMAIN TREE_CACHE[r] = {}

\* a render has failed on an error of the body of its t-tree
C6_Witness ==
  \E r \in Renders :
    /\ Scenarios[scn].content = TreeFails
    /\ state[r] = "failed"
    /\ TreeTasks(r) # {}
    /\ \E i \in DOMAIN tasks[r] : tasks[r][i].parent \in TreeTasks(r) /\ tasks[r][i].st = "err"

\* C7: two t-tree directives that are active at the same time in one render
\* (siblings, or one nested in the other) have different session identifiers.
C7_DistinctSessionIds ==
  \A r \in Renders : \A i, j \in TreeTasks(r) :
    i # j /\ tasks[r][i].st = "pending" /\ tasks[r][j].st = "pending"
      => tasks[r][i].tid # tasks[r][j].tid

\* a t-children of the outer tree has found no session after the tree nested in
\* its body was given the same identifier
C7_Witness ==
  \E r \in Renders : \E i \in DOMAIN tasks[r] :
    /\ Scenarios[scn].content = NestedTrees
    /\ tasks[r][i].note = "miss"

C9_NoConditionLeft ==
  (Scenarios[scn].cache /\ \A r \in Renders : state[r] # "running") =>
    \A md5 \in DOMAIN DOM_CACHE : \A n \in DOMAIN doms[DOM_CACHE[md5]] :
      doms[DOM_CACHE[md5]][n].cond = "none"

\* C10: rendering a t-elif with attribute on and no propagated condition fails
\* the render with the sequencing error, which identifies that t-elif node; no
\* output is returned.
C10_SequencingError ==
  \A r \in Renders : \A i \in DOMAIN tasks[r] :
    (/\ Finished(r)
     /\ tasks[r][i].note = "sequencing"
     /\ NodeOf(r, i).tag = "t-elif") =>
       /\ state[r] = "failed" /\ html[r] = <<>>
       /\ error[r].name = "ParseError"
       /\ error[r].message = "t-elif must after t-if or t-elif"
       /\ error[r].at = <<NodeOf(r, i).raw>>

\* the parseElement calls that rejected with an error of their own node
Origins(r) ==
  {i \in DOMAIN tasks[r] :
     /\ tasks[r][i].kind = "leaf" /\ tasks[r][i].fn = "parseElement"
     /\ tasks[r][i].threw # NoError}

\* C11: when rendering a node fails with a directive-level error, render fails
\* with a ParseError that carries the message of the original error and one
\* annotation per node it went through, the innermost first, its level one more
\* for every enclosing node; the original error is never replaced by another.
C11_StructuredError ==
  \A r \in Renders : Finished(r) /\ Origins(r) # {} =>
    /\ state[r] = "failed"
    /\ error[r].name = "ParseError"
    /\ error[r].level = Len(error[r].at) - 1
    /\ \E i \in Origins(r) :
         /\ error[r].message = tasks[r][i].threw.message
         /\ error[r].at[1] = NodeOf(r, i).raw

\* the promises of the t-with directives that await their children
WithTasks(r) ==
  {p \in DOMAIN tasks[r] :
     /\ tasks[r][p].fn = "parseElement" /\ tasks[r][p].kind = "all"
     /\ tasks[r][p].parent # Undefined
     /\ NodeOf(r, p).tag = "t-with"}
\* the context in force at the directive: the one its siblings are rendered under
ContextAt(r, p) == tasks[r][tasks[r][p].parent].ctx
\* the aliases of the directive, each the value of its expression in `outer`
AliasesOf(node, outer) ==
  [varName \in DOMAIN node.attrs |-> getExpressionValue(outer, node.attrs[varName]).v]
BoolText(b) == IF b THEN "true" ELSE "false"
RECURSIVE Numbers(_)
\* the text of the array `list` from its j-th item on: 1,2,3
Numbers(j) ==
  IF j > ListLen THEN ""
  ELSE (IF j = 1 THEN "" ELSE ",") \o ToString(j) \o Numbers(j + 1)

\* C12: a t-with binds every alias to the value of its expression in the context
\* in force at the directive, not under the other aliases; its children render
\* under that context plus the aliases, which shadow its keys of the same name;
\* the siblings that follow and the ancestors see the context unchanged.
C12_WithScope ==
  \A r \in Renders :
    /\ \A p \in WithTasks(r) :
         LET outer == ContextAt(r, p)
             alias == AliasesOf(NodeOf(r, p), outer)
         IN  /\ tasks[r][p].ctx =
                  [key \in DOMAIN outer \cup DOMAIN alias |->
                     IF key \in DOMAIN alias THEN alias[key] ELSE outer[key]]
             /\ \A i \in DOMAIN tasks[r] :
                  tasks[r][i].parent = p => tasks[r][i].ctx = tasks[r][p].ctx
             /\ \A i \in DOMAIN tasks[r] :
                  tasks[r][i].parent = tasks[r][p].parent /\ i # p => tasks[r][i].ctx = outer
    /\ Scenarios[scn].content = With /\ Finished(r) =>
         /\ state[r] = "done"
         /\ TextOf(html[r]) =
              "<p>" \o BoolText(context[r]["visible"].b) \o "<!-- T-WITH BEGIN -->\n"
                \o BoolText(context[r]["visible"].b) \o "|" \o Numbers(1) \o "|7"
                \o "\n<!-- T-WITH END -->" \o BoolText(context[r]["visible"].b) \o "</p>"

\* a t-with whose aliases shadow keys of the context has rendered, and the text
\* that follows it too
C12_Witness ==
  \E r \in Renders : \E p \in WithTasks(r) :
    /\ state[r] = "done"
    /\ tasks[r][p].st = "val"
    /\ tasks[r][p].ctx["visible"] = list /\ context[r]["visible"] # list
    /\ tasks[r][p].ctx["xx"] = context[r]["visible"]

\* C13: a literal escape {!{ x }!} anywhere in a template (at the top, in the
\* body of a directive, in a file pulled in by t-include) comes out as the text
\* {{ x }} and is never given to the evaluator.
C13_LiteralEscape ==
  \A r \in Renders : Finished(r) =>
    /\ Scenarios[scn].content = Escapes =>
         /\ state[r] = "done"
         /\ TextOf(html[r]) =
              "{{visible}}<p>{{visible}}</p><!-- T-IF BEGIN -->\n"
                \o (IF context[r]["visible"].b THEN "{{visible}}" ELSE "<!-- FALSE -->")
                \o "\n<!-- T-IF END --> "
    /\ Scenarios[scn].content = IncludeTop =>
         /\ state[r] = "done"
         /\ TextOf(html[r]) =
              "<!-- T-INCLUDE BEGIN -->\n{{visible}}\n<!-- T-INCLUDE END -->"
                \o "<p><!-- T-INCLUDE BEGIN -->\n{{visible}}\n<!-- T-INCLUDE END --></p>"
    /\ Scenarios[scn].content = IncludeInIf =>
         /\ state[r] = "done"
         /\ TextOf(html[r]) =
              "<!-- T-IF BEGIN -->\n"
                \o (IF context[r]["visible"].b
                      THEN "<!-- T-INCLUDE BEGIN -->\n{{visible}}\n<!-- T-INCLUDE END -->"
                      ELSE "<!-- FALSE -->")
                \o "\n<!-- T-IF END --> "

\* the literal escapes of a template and of the file it includes come out as
\* they should where no directive encloses the t-include
C13_EscapeOutsideDirectives ==
  \A r \in Renders : Finished(r) =>
    /\ Scenarios[scn].content = Escapes =>
         /\ state[r] = "done"
         /\ TextOf(html[r]) =
              "{{visible}}<p>{{visible}}</p><!-- T-IF BEGIN -->\n"
                \o (IF context[r]["visible"].b THEN "{{visible}}" ELSE "<!-- FALSE -->")
                \o "\n<!-- T-IF END --> "
    /\ Scenarios[scn].content = IncludeTop =>
         /\ state[r] = "done"
         /\ TextOf(html[r]) =
              "<!-- T-INCLUDE BEGIN -->\n{{visible}}\n<!-- T-INCLUDE END -->"
                \o "<p><!-- T-INCLUDE BEGIN -->\n{{visible}}\n<!-- T-INCLUDE END --></p>"

\* C14: parse is total on tag sequences: for every sequence of open tags, close
\* tags and text, a close tag without its open tag and tags after it included,
\* parse returns a forest and raises no error
C14_ParseTotal ==
  (output.done /\ \A i \in DOMAIN input : input[i] \in {Entities[1], Entities[2], Entities[4]})
    => output.ok

\* the text of a template
TemplateText(content) == Flatten([i \in DOMAIN content |-> content[i].data])
\* the template text with its {{ expr }} spans replaced by the evaluator output
Substituted(content, ctx) == TextOf(resolveExpression(TemplateText(content), ctx).v)
\* the rendered output of a finished render of the template is the template
\* text with its expressions substituted
RendersToItself(content) ==
  \A r \in Renders : (Finished(r) /\ Scenarios[scn].content = content) =>
    /\ state[r] = "done"
    /\ TextOf(html[r]) = Substituted(content, context[r])

\* C15: a template without directive tags renders to its own text, the
\* {{ expr }} spans replaced by the escaped evaluator output; so do templates
\* with a never-closed <br>, a processing instruction, a single-quoted value
C15_IdentityRender ==
  /\ RendersToItself(Plain)
  /\ RendersToItself(Break)
  /\ RendersToItself(Prolog)
  /\ RendersToItself(SingleQuoted)

\* a well-formed template with double-quoted values does render to itself
C15_WellFormedIdentity == RendersToItself(Plain)

\* the render r is the only one that has used its forest
OwnForest(r) == \A q \in Renders \ {r} : dom[q] # dom[r]
\* the t-if and t-elif nodes whose on expression a render has evaluated
Conditions(r) ==
  {n \in DOMAIN Forest(r) \ {Root} :
     /\ Forest(r)[n].type = ELEMENT_NODE /\ Forest(r)[n].tag \in {"t-if", "t-elif"}
     /\ "on" \in DOMAIN Forest(r)[n].attrs
     /\ Forest(r)[n].tag = "t-elif" => Forest(r)[n].cond # "none"
     /\ TasksOf(r, n) # {}}
\* the t-else nodes a condition was propagated to
Elses(r) ==
  {n \in DOMAIN Forest(r) \ {Root} :
     /\ Forest(r)[n].type = ELEMENT_NODE /\ Forest(r)[n].tag = "t-else"
     /\ Forest(r)[n].cond # "none"
     /\ TasksOf(r, n) # {}}
\* the next element sibling of n is a t-elif or a t-else
HasSuccessor(nodes, n) ==
  /\ NextElementSibling(nodes, n) # Undefined
  /\ nodes[NextElementSibling(nodes, n)].tag \in {"t-elif", "t-else"}

\* C16: a rendered t-if or t-elif with on records the negation of the value of
\* its own on expression on its next element sibling when that is a t-elif or a
\* t-else, whatever was propagated to itself; a t-else renders its children if
\* the condition propagated to it is truthy and emits the FALSE marker if not
C16_NegationPropagated ==
  \A r \in Renders : (Finished(r) /\ dom[r] # Undefined /\ OwnForest(r)) =>
    /\ \A n \in Conditions(r) : HasSuccessor(Forest(r), n) =>
          Forest(r)[NextElementSibling(Forest(r), n)].cond =
            BoolText(~Truthy(getExpressionValue(context[r], Forest(r)[n].attrs["on"]).v))
    /\ \A n \in Elses(r) : \A i \in TasksOf(r, n) :
          tasks[r][i].note = IF Forest(r)[n].cond = "true" THEN "children" ELSE "false"

\* the same where the t-if or t-elif and its successor are adjacent or have one
\* text or comment node between them
C16_NearSuccessor ==
  \A r \in Renders : (Finished(r) /\ dom[r] # Undefined /\ OwnForest(r)) =>
    /\ \A n \in Conditions(r) :
          (HasSuccessor(Forest(r), n)
             /\ NextElementSibling(Forest(r), n) \in
                   {Forest(r)[Forest(r)[n].parent].children[Forest(r)[n].index + k] : k \in {2, 3}
                      \cap 1..(Len(Forest(r)[Forest(r)[n].parent].children) - Forest(r)[n].index)}) =>
            Forest(r)[NextElementSibling(Forest(r), n)].cond =
              BoolText(~Truthy(getExpressionValue(context[r], Forest(r)[n].attrs["on"]).v))
    /\ \A n \in Elses(r) : \A i \in TasksOf(r, n) :
          tasks[r][i].note = IF Forest(r)[n].cond = "true" THEN "children" ELSE "false"

\* C17: nextElement gives the nearest following sibling that is an element,
\* however many other nodes lie between, and gives no node, without raising,
\* when there is no following element sibling
C17_NextElement ==
  sibling.node # Undefined =>
    /\ sibling.ok
    /\ sibling.n = NextElementSibling(output.nodes, sibling.node)

\* where the next sibling is an element, or the one after a single other node
\* is, nextElement gives the nearest following element sibling
C17_OneNodeSkipped ==
  (sibling.node # Undefined
     /\ NextElementSibling(output.nodes, sibling.node) # Undefined
     /\ output.nodes[NextElementSibling(output.nodes, sibling.node)].index
           <= output.nodes[sibling.node].index + 2) =>
    /\ sibling.ok
    /\ sibling.n = NextElementSibling(output.nodes, sibling.node)

\* the contents with an open tag that has a bare token or an unquoted value
BareTokens == {Entities[6], Entities[7], Entities[8]}
HasBareToken == \E i \in DOMAIN input : input[i] \in BareTokens

\* C18: parsing an open tag whose attribute text has a bare token (disabled,
\* the / of <t-children ... />) or an unquoted value succeeds, and the bare
\* token is recorded as an attribute without a value
C18_BareTokens ==
  (output.done /\ HasBareToken
     /\ \A i \in DOMAIN input : input[i] \in BareTokens \cup {Entities[4]}) =>
    /\ output.ok
    /\ \E n \in DOMAIN output.nodes : "disabled" \in DOMAIN output.nodes[n].attrs
                                       \/ "/" \in DOMAIN output.nodes[n].attrs
                                       \/ "href" \in DOMAIN output.nodes[n].attrs

\* an open tag whose attributes all have quoted values is parsed, and its
\* attributes are recorded with their values
C18_QuotedValues ==
  (output.done /\ input = <<Entities[3]>>) =>
    /\ output.ok
    /\ output.nodes[2].attrs = [class |-> <<"x">>]

RECURSIVE HasPlaceholderFrom(_, _)
\* a placeholder token is in the text, inside its spans included
HasPlaceholderFrom(text, i) ==
  IF i > Len(text) THEN FALSE
  ELSE \/ text[i].k = "ph"
       \/ text[i].k = "span" /\ HasPlaceholderFrom(text[i].p, 1)
       \/ HasPlaceholderFrom(text, i + 1)
HasPlaceholder(text) == HasPlaceholderFrom(text, 1)
\* no raw text and no attribute value of the forest has a placeholder
Restored(nodes) ==
  \A n \in DOMAIN nodes :
    /\ ~HasPlaceholder(nodes[n].raw)
    /\ \A name \in DOMAIN nodes[n].values : ~HasPlaceholder(nodes[n].values[name])

\* C19: after parse no raw text and no attribute value has a placeholder, for
\* every nesting of masked spans, and every placeholder made during the parse
\* has been removed from the table
C19_PlaceholdersRestored ==
  (output.done /\ output.ok) =>
    /\ Restored(output.nodes)
    /\ DOMAIN output.T.map = {}

\* the raw texts and attribute values are restored where no masked span lies
\* inside another one
C19_FlatSpansRestored ==
  (output.done /\ output.ok /\ \A i \in DOMAIN input : input[i] \in {Entities[k] : k \in 1..5}) =>
    Restored(output.nodes)

\* the members of the t-if, t-elif, t-else chain, and those that rendered
\* their children
Members(r) ==
  {n \in DOMAIN Forest(r) \ {Root} : Forest(r)[n].tag \in {"t-if", "t-elif", "t-else"}}
Rendered(r) == {n \in Members(r) : \E i \in TasksOf(r, n) : tasks[r][i].note = "children"}

\* C20: of the adjacent element siblings t-if, t-elif, t-else at most one
\* renders its children in a render pass, every other one emits only the FALSE
\* marker
C20_AtMostOneRenders ==
  \A r \in Renders :
    (Finished(r) /\ Scenarios[scn].content \in {ElifChain("zero"), ElifChain("list")}) =>
      /\ Cardinality(Rendered(r)) <= 1
      /\ \A n \in Members(r) \ Rendered(r) :
            \A i \in TasksOf(r, n) : tasks[r][i].note = "false"

\* with a falsy t-if the chain renders one member
C20_FalsyIf ==
  \A r \in Renders :
    (Finished(r) /\ Scenarios[scn].content \in {ElifChain("zero"), ElifChain("list")}
       /\ ~context[r]["visible"].b) =>
      Cardinality(Rendered(r)) = 1

\* the finished renders of the template have returned the text
RendersAs(content, text) ==
  \A r \in Renders : (Finished(r) /\ Scenarios[scn].content = content) =>
    /\ state[r] = "done"
    /\ TextOf(html[r]) = text

\* C21: a {{ expr }} span is evaluated once and the text the evaluator gives is
\* not scanned for spans and evaluated again, whatever directives enclose the
\* node: a value "{{visible}}" comes out as the text {{visible}}
C21_OutputNotRescanned ==
  /\ RendersAs(InjectedPlain, "{{visible}}<p>{{visible}}</p>")
  /\ RendersAs(InjectedIf, "<!-- T-IF BEGIN -->\n{{visible}}\n<!-- T-IF END --> ")
  /\ RendersAs(InjectedDeep,
               "<!-- T-IF BEGIN -->\n<!-- T-WITH BEGIN -->\n{{visible}}"
                 \o "\n<!-- T-WITH END -->\n<!-- T-IF END --> ")

\* at the top level and inside plain elements the text the evaluator gives is
\* not evaluated again
C21_PlainNotRescanned == RendersAs(InjectedPlain, "{{visible}}<p>{{visible}}</p>")

\* the renderings of a t-tree body for the items of the t-tree directive itself
Bodies(r) ==
  {i \in DOMAIN tasks[r] :
     /\ tasks[r][i].fn = "parseChildren" /\ tasks[r][i].parent # Undefined
     /\ tasks[r][tasks[r][i].parent].tid # Undefined}
\* the directive is not inside the body of another t-tree
Outermost(r, p) == TreeIdOf(tasks[r][p].ctx) = Undefined

\* C22: while the body of a t-tree is rendered, the session id in the context is
\* that of the innermost enclosing t-tree, so a t-children in the body of a
\* t-tree nested in another one expands the inner body with the inner item
C22_InnermostSession ==
  /\ \A r \in Renders : \A i \in Bodies(r) :
        TreeIdOf(tasks[r][i].ctx) = tasks[r][tasks[r][i].parent].tid
  /\ RendersAs(NestedChildren,
               "<!-- T-TREE BEGIN -->\n<!-- T-TREE BEGIN -->\n4\n<!-- T-TREE END -->"
                 \o "\n<!-- T-TREE END -->")

\* the body of a t-tree that is in no other t-tree is rendered with its own
\* session id in the context
C22_OutermostSession ==
  \A r \in Renders : \A i \in Bodies(r) :
    Outermost(r, tasks[r][i].parent) =>
      TreeIdOf(tasks[r][i].ctx) = tasks[r][tasks[r][i].parent].tid
====
